---------------------------- MODULE Spec2Model ----------------------------
(***************************************************************************)
(* GalacticBuf: the value model, the binary serializer                     *)
(* (GalacticBuf serialization/solution.py), the decoder of the auth        *)
(* service (auth/app.py) and the text grammar of the command line.         *)
(*                                                                         *)
(* Representation.                                                         *)
(*   bytes / bytearray : a sequence of 0..255                              *)
(*   str               : a sequence of Unicode code points                 *)
(*   Python int        : [neg, mag], mag the big-endian base-256 digits of *)
(*                       the magnitude without leading zeros (unbounded)   *)
(*   ValueError(msg)   : a result record whose err field is msg            *)
(***************************************************************************)
EXTENDS Integers, Sequences, FiniteSets, TLC

VARIABLES pc, obj, encoded, raw, decoded, text, scan, parsed, frame, orders,
          ret

vars == <<pc, obj, encoded, raw, decoded, text, scan, parsed, frame, orders,
         ret>>

(***************************************************************************)
(* Sequence helpers (Python slicing and list operations).                  *)
(***************************************************************************)
Min(a, b) == IF a < b THEN a ELSE b

\* s[lo:hi] of Python for 0 <= lo, 0 <= hi: never fails, clips at len(s).
Slice(s, lo, hi) == SubSeq(s, lo + 1, Min(hi, Len(s)))

Front(s) == SubSeq(s, 1, Len(s) - 1)

Last(s) == s[Len(s)]

Repeat(x, n) == [i \in 1..n |-> x]

(***************************************************************************)
(* Python integers of any magnitude.                                       *)
(***************************************************************************)
RECURSIVE NatDigits(_)
NatDigits(n) == IF n = 0 THEN <<>> ELSE NatDigits(n \div 256) \o <<n % 256>>

PyInt(n) == [neg |-> n < 0, mag |-> NatDigits(IF n < 0 THEN -n ELSE n)]

RECURSIVE StripZeros(_)
StripZeros(m) ==
    IF m # <<>> /\ m[1] = 0 THEN StripZeros(Tail(m)) ELSE m

PadLeft(m, n) == Repeat(0, n - Len(m)) \o m

Complement(b) == [i \in 1..Len(b) |-> 255 - b[i]]

\* b + 1 modulo 256^Len(b)
RECURSIVE IncrBytes(_)
IncrBytes(b) ==
    IF b = <<>> THEN <<>>
    ELSE IF Last(b) = 255 THEN IncrBytes(Front(b)) \o <<0>>
    ELSE Front(b) \o <<Last(b) + 1>>

\* m * k + c for a magnitude m and small naturals k, c
RECURSIVE MulAddCarry(_, _, _)
MulAddCarry(m, k, c) ==
    IF m = <<>> THEN NatDigits(c)
    ELSE LET t == (Last(m) * k) + c
         IN  MulAddCarry(Front(m), k, t \div 256) \o <<t % 256>>

MulAdd(m, k, c) == StripZeros(MulAddCarry(m, k, c))

\* a range check one too wide: -2**63 <= v <= 2**63
InInt64Inclusive(v) ==
    \/ Len(v.mag) < 8
    \/ /\ Len(v.mag) = 8
       /\ \/ v.mag[1] < 128
          \/ v.mag = <<128, 0, 0, 0, 0, 0, 0, 0>>

\* -2**63 <= v < 2**63
InInt64(v) ==
    \/ Len(v.mag) < 8
    \/ /\ Len(v.mag) = 8
       /\ \/ v.mag[1] < 128
          \/ v.neg /\ v.mag = <<128, 0, 0, 0, 0, 0, 0, 0>>

\* the 8 bytes of v & ((1 << 64) - 1), most significant first (|v| < 2**64)
Mask64(v) ==
    IF v.neg THEN IncrBytes(Complement(PadLeft(v.mag, 8)))
    ELSE PadLeft(v.mag, 8)

\* int.from_bytes(b, "big", signed=True)
IntFromBytesSigned(b) ==
    IF b = <<>> THEN PyInt(0)
    ELSE IF b[1] >= 128
         THEN [neg |-> TRUE, mag |-> StripZeros(IncrBytes(Complement(b)))]
         ELSE [neg |-> FALSE, mag |-> StripZeros(b)]

(***************************************************************************)
(* UTF-8: str.encode("utf-8") and bytes.decode("utf-8").                   *)
(***************************************************************************)
Utf8Char(c) ==
    IF c < 128 THEN <<c>>
    ELSE IF c < 2048 THEN <<192 + (c \div 64), 128 + (c % 64)>>
    ELSE IF c < 65536
         THEN <<224 + (c \div 4096), 128 + ((c \div 64) % 64), 128 + (c % 64)>>
    ELSE <<240 + (c \div 262144), 128 + ((c \div 4096) % 64),
           128 + ((c \div 64) % 64), 128 + (c % 64)>>

\* the encodings of the characters, concatenated (split in halves so that a
\* string of 65536 characters needs 16 levels of evaluation, not 65536)
RECURSIVE Utf8Encode(_)
Utf8Encode(s) ==
    IF Len(s) = 0 THEN <<>>
    ELSE IF Len(s) = 1 THEN Utf8Char(s[1])
    ELSE LET h == Len(s) \div 2
         IN  Utf8Encode(SubSeq(s, 1, h)) \o Utf8Encode(SubSeq(s, h + 1, Len(s)))

IsCont(b, i, lo, hi) == i <= Len(b) /\ b[i] >= lo /\ b[i] <= hi

\* strict decoding: [ok, s]; ok = FALSE is UnicodeDecodeError
RECURSIVE Utf8DecodeFrom(_, _, _)
Utf8DecodeFrom(b, i, acc) ==
    IF i > Len(b) THEN [ok |-> TRUE, s |-> acc]
    ELSE LET c == b[i] IN
      IF c < 128 THEN Utf8DecodeFrom(b, i + 1, Append(acc, c))
      ELSE IF c >= 194 /\ c <= 223 /\ IsCont(b, i + 1, 128, 191)
        THEN Utf8DecodeFrom(b, i + 2,
                 Append(acc, ((c - 192) * 64) + (b[i + 1] - 128)))
      ELSE IF /\ c >= 224 /\ c <= 239
              /\ IsCont(b, i + 1, IF c = 224 THEN 160 ELSE 128,
                                  IF c = 237 THEN 159 ELSE 191)
              /\ IsCont(b, i + 2, 128, 191)
        THEN Utf8DecodeFrom(b, i + 3,
                 Append(acc, ((c - 224) * 4096) + ((b[i + 1] - 128) * 64)
                             + (b[i + 2] - 128)))
      ELSE IF /\ c >= 240 /\ c <= 244
              /\ IsCont(b, i + 1, IF c = 240 THEN 144 ELSE 128,
                                  IF c = 244 THEN 143 ELSE 191)
              /\ IsCont(b, i + 2, 128, 191)
              /\ IsCont(b, i + 3, 128, 191)
        THEN Utf8DecodeFrom(b, i + 4,
                 Append(acc, ((c - 240) * 262144) + ((b[i + 1] - 128) * 4096)
                             + ((b[i + 2] - 128) * 64) + (b[i + 3] - 128)))
      ELSE [ok |-> FALSE, s |-> acc]

Utf8Decode(b) == Utf8DecodeFrom(b, 1, <<>>)

(***************************************************************************)
(* Core data structures: GBValue, GBList, GBObject.                        *)
(***************************************************************************)
TYPE_INT == 1

TYPE_STRING == 2

TYPE_LIST == 3

TYPE_OBJECT == 4

GBList(element_type, elements) ==
    [element_type |-> element_type, elements |-> elements]

GBObject(fields) == [fields |-> fields]

make_int(v) == [type |-> TYPE_INT, int_value |-> v]

make_string(s) == [type |-> TYPE_STRING, string_value |-> s]

make_list(elem_type, elems) ==
    [type |-> TYPE_LIST, list_value |-> GBList(elem_type, elems)]

make_object(o) == [type |-> TYPE_OBJECT, object_value |-> o]

(***************************************************************************)
(* The serializer.  A writer maps the buffer to [err, buf]; err = NoError  *)
(* when it returned, otherwise the message of the ValueError it raised.    *)
(***************************************************************************)
NoError == ""

Int64OutOfRange == "int64 out of range"

StringTooLong == "String too long"

TooManyFields == "Too many fields in object"

InvalidFieldNameLength == "Invalid field name length"

TooManyListElements == "Too many list elements"

ListElementTypeMismatch == "List element type mismatch"

UnsupportedListElementType == "Unsupported list element type"

UnknownTypeTag == "Unknown value type"

MessageTooLarge == "Message too large"

MaxU8 == 255

MaxU16 == 65535

Wrote(buf) == [err |-> NoError, buf |-> buf]

Raised(msg, buf) == [err |-> msg, buf |-> buf]

write_u8(buf, v) == Append(buf, v % 256)

\* the two bytes in little-endian order
write_u16_swapped(buf, v) == buf \o <<v % 256, (v \div 256) % 256>>

write_u16(buf, v) == buf \o <<(v \div 256) % 256, v % 256>>

write_i64(buf, v) ==
    IF ~InInt64(v) THEN Raised(Int64OutOfRange, buf)
    ELSE Wrote(buf \o Mask64(v))

write_string_value(buf, s) ==
    LET b == Utf8Encode(s) IN
    IF Len(b) > MaxU16 THEN Raised(StringTooLong, buf)
    ELSE Wrote(write_u16(buf, Len(b)) \o b)

RECURSIVE write_value(_, _)
RECURSIVE write_list_value(_, _)
RECURSIVE write_object_no_header(_, _)
RECURSIVE WriteFields(_, _, _, _)
RECURSIVE WriteElements(_, _, _, _, _)

\* one (name, val) pair: the body of the field loop
WriteField(buf, f) ==
    LET name_bytes == Utf8Encode(f[1]) IN
    IF ~(1 <= Len(name_bytes) /\ Len(name_bytes) <= MaxU8)
    THEN Raised(InvalidFieldNameLength, buf)
    ELSE write_value(write_u8(buf, Len(name_bytes)) \o name_bytes, f[2])

\* the field loop over fields[lo..hi], in order, stopping at the first raise
\* (evaluated in halves: the left half, then the right half on its buffer)
WriteFields(buf, fields, lo, hi) ==
    IF lo > hi THEN Wrote(buf)
    ELSE IF lo = hi THEN WriteField(buf, fields[lo])
    ELSE LET mid == (lo + hi) \div 2
             r   == WriteFields(buf, fields, lo, mid)
         IN  IF r.err # NoError THEN r
             ELSE WriteFields(r.buf, fields, mid + 1, hi)

write_object_no_header(buf, o) ==
    IF Len(o.fields) > MaxU8 THEN Raised(TooManyFields, buf)
    ELSE WriteFields(write_u8(buf, Len(o.fields)), o.fields, 1, Len(o.fields))

\* one element of a list: the body of the element loop
WriteElement(buf, element_type, el) ==
    IF el.type # element_type THEN Raised(ListElementTypeMismatch, buf)
    ELSE IF el.type = TYPE_INT THEN write_i64(buf, el.int_value)
    ELSE IF el.type = TYPE_STRING THEN write_string_value(buf, el.string_value)
    ELSE IF el.type = TYPE_OBJECT
         THEN write_object_no_header(buf, el.object_value)
    ELSE Raised(UnsupportedListElementType, buf)

WriteElements(buf, element_type, elements, lo, hi) ==
    IF lo > hi THEN Wrote(buf)
    ELSE IF lo = hi THEN WriteElement(buf, element_type, elements[lo])
    ELSE LET mid == (lo + hi) \div 2
             r   == WriteElements(buf, element_type, elements, lo, mid)
         IN  IF r.err # NoError THEN r
             ELSE WriteElements(r.buf, element_type, elements, mid + 1, hi)

write_list_value(buf, lst) ==
    LET buf1 == write_u8(buf, lst.element_type) IN
    IF Len(lst.elements) > MaxU16 THEN Raised(TooManyListElements, buf1)
    ELSE WriteElements(write_u16(buf1, Len(lst.elements)), lst.element_type,
                       lst.elements, 1, Len(lst.elements))

write_value(buf, val) ==
    LET buf1 == write_u8(buf, val.type) IN
    IF val.type = TYPE_INT THEN write_i64(buf1, val.int_value)
    ELSE IF val.type = TYPE_STRING
         THEN write_string_value(buf1, val.string_value)
    ELSE IF val.type = TYPE_LIST THEN write_list_value(buf1, val.list_value)
    ELSE IF val.type = TYPE_OBJECT
         THEN write_object_no_header(buf1, val.object_value)
    ELSE Raised(UnknownTypeTag, buf1)

\* total_len without the 4 bytes of the header
serialize_message_body_len(o) ==
    LET body      == WriteFields(<<>>, o.fields, 1, Len(o.fields))
        total_len == Len(body.buf)
    IN  IF body.err # NoError THEN [err |-> body.err, bytes |-> <<>>]
        ELSE IF total_len > MaxU16
             THEN [err |-> MessageTooLarge, bytes |-> <<>>]
        ELSE [err   |-> NoError,
              bytes |-> write_u16(write_u8(write_u8(<<>>, 1), Len(o.fields)),
                                  total_len) \o body.buf]

\* [err, bytes]: the bytes returned, or the ValueError raised
serialize_message(o) ==
    LET body      == WriteFields(<<>>, o.fields, 1, Len(o.fields))
        total_len == 4 + Len(body.buf)
    IN  IF body.err # NoError THEN [err |-> body.err, bytes |-> <<>>]
        ELSE IF total_len > MaxU16
             THEN [err |-> MessageTooLarge, bytes |-> <<>>]
        ELSE [err   |-> NoError,
              bytes |-> write_u16(write_u8(write_u8(<<>>, 1), Len(o.fields)),
                                  total_len) \o body.buf]

(***************************************************************************)
(* The decoder of the auth service.  raw[pos] beyond the input raises      *)
(* IndexError; a slice never raises and is cut at the end of the input.    *)
(* The result is a dict: insertion ordered, one entry per key.             *)
(***************************************************************************)
InvalidMagic == "Invalid magic byte"

UnsupportedType == "Unsupported type in decoder"

IndexError == "IndexError"

UnicodeDecodeError == "UnicodeDecodeError"

IntObj(v) == [py |-> "int", val |-> v]

StrObj(s) == [py |-> "str", val |-> s]

\* result[name] = v
DictSet(d, name, v) ==
    IF \E i \in 1..Len(d) : d[i][1] = name
    THEN [i \in 1..Len(d) |-> IF d[i][1] = name THEN <<name, v>> ELSE d[i]]
    ELSE Append(d, <<name, v>>)

Failed(msg, pos) == [err |-> msg, result |-> <<>>, pos |-> pos]

\* an indexing that never raises: past the end it yields a zero byte
ByteAtUnchecked(b, pos) ==
    [ok |-> TRUE, v |-> IF pos < Len(b) THEN b[pos + 1] ELSE 0]

\* raw[pos] for pos >= 0: the byte at pos, or IndexError (ok = FALSE) when
\* pos is not a position of the input
ByteAt(b, pos) ==
    [ok |-> pos < Len(b), v |-> IF pos < Len(b) THEN b[pos + 1] ELSE 0]

\* the header: magic, field_count and total_len.  reads is the set of
\* positions at which raw[...] returned a byte.
DecodeHeader(b) ==
    LET magic == ByteAt(b, 0)
        count == ByteAt(b, 1)
        hi    == ByteAt(b, 2)
        lo    == ByteAt(b, 3)
        Stop(msg, pos, reads) ==
            [err |-> msg, pos |-> pos, field_count |-> 0, reads |-> reads]
    IN
    IF ~magic.ok THEN Stop(IndexError, 0, {})
    ELSE IF magic.v # 1 THEN Stop(InvalidMagic, 0, {0})
    ELSE IF ~count.ok THEN Stop(IndexError, 1, {0})
    ELSE IF ~hi.ok THEN Stop(IndexError, 2, {0, 1})
    ELSE IF ~lo.ok THEN Stop(IndexError, 2, {0, 1, 2})
    ELSE [err |-> NoError, pos |-> 4, field_count |-> count.v,
          reads |-> {0, 1, 2, 3}]

\* one iteration of the field loop, from position pos
DecodeField(b, pos, result) ==
    LET name_len == ByteAt(b, pos)
        pos1     == pos + 1
        name     == Utf8Decode(Slice(b, pos1, pos1 + name_len.v))
        pos2     == pos1 + name_len.v
        val_type == ByteAt(b, pos2)
        pos3     == pos2 + 1
        hi       == ByteAt(b, pos3)
        lo       == ByteAt(b, pos3 + 1)
        strlen   == (hi.v * 256) + lo.v
        pos4     == pos3 + 2
        s        == Utf8Decode(Slice(b, pos4, pos4 + strlen))
        Stop(msg, at, reads) ==
            [err |-> msg, pos |-> at, result |-> result, reads |-> reads]
    IN
    IF ~name_len.ok THEN Stop(IndexError, pos, {})
    ELSE IF ~name.ok THEN Stop(UnicodeDecodeError, pos1, {pos})
    ELSE IF ~val_type.ok THEN Stop(IndexError, pos2, {pos})
    ELSE IF val_type.v = TYPE_INT
    THEN [err |-> NoError, pos |-> pos3 + 8,
          result |-> DictSet(result, name.s,
                         IntObj(IntFromBytesSigned(Slice(b, pos3, pos3 + 8)))),
          reads |-> {pos, pos2}]
    ELSE IF val_type.v = TYPE_STRING
    THEN IF ~hi.ok THEN Stop(IndexError, pos3, {pos, pos2})
         ELSE IF ~lo.ok THEN Stop(IndexError, pos3, {pos, pos2, pos3})
         ELSE IF ~s.ok
         THEN Stop(UnicodeDecodeError, pos4, {pos, pos2, pos3, pos3 + 1})
         ELSE [err |-> NoError, pos |-> pos4 + strlen,
               result |-> DictSet(result, name.s, StrObj(s.s)),
               reads |-> {pos, pos2, pos3, pos3 + 1}]
    ELSE Stop(UnsupportedType, pos3, {pos, pos2})

\* the remaining n iterations of the field loop, from position pos
RECURSIVE DecodeFields(_, _, _, _)
DecodeFields(b, pos, n, result) ==
    IF n = 0 THEN [err |-> NoError, result |-> result, pos |-> pos]
    ELSE LET field == DecodeField(b, pos, result)
         IN  IF field.err # NoError THEN Failed(field.err, field.pos)
             ELSE DecodeFields(b, field.pos, n - 1, field.result)

\* [err, result, pos]: the dict returned and the final read position, or the
\* exception raised
decode_galacticbuf(b) ==
    LET header == DecodeHeader(b)
    IN  IF header.err # NoError THEN Failed(header.err, header.pos)
        ELSE DecodeFields(b, header.pos, header.field_count, <<>>)

(***************************************************************************)
(* The text grammar of the command line.                                   *)
(***************************************************************************)
ChSpace == 32

ChQuote == 34

ChApostrophe == 39

ChPlus == 43

ChComma == 44

ChMinus == 45

ChZero == 48

ChNine == 57

ChColon == 58

ChEquals == 61

ChLBracket == 91

ChRBracket == 93

ChUnderscore == 95

ChLBrace == 123

ChRBrace == 125

EmptyObjectFieldName == "Empty object field name"

EmptyFieldName == "Empty field name"

InvalidArgument == "Invalid argument (expected key=value)"

\* the ASCII characters str.strip() removes
IsSpace(c) == c \in (9..13) \cup (28..32)

IsDigit(c) == c >= ChZero /\ c <= ChNine

RECURSIVE LStrip(_)
LStrip(s) == IF s # <<>> /\ IsSpace(s[1]) THEN LStrip(Tail(s)) ELSE s

RECURSIVE RStrip(_)
RStrip(s) == IF s # <<>> /\ IsSpace(Last(s)) THEN RStrip(Front(s)) ELSE s

\* s.strip()
Strip(s) == RStrip(LStrip(s))

\* s.rstrip(",")
RECURSIVE RStripCommas(_)
RStripCommas(s) ==
    IF s # <<>> /\ Last(s) = ChComma THEN RStripCommas(Front(s)) ELSE s

Contains(s, c) == \E i \in 1..Len(s) : s[i] = c

IndexOf(s, c) == CHOOSE i \in 1..Len(s) : s[i] = c /\ \A j \in 1..(i - 1) : s[j] # c

StartsWith(s, c) == s # <<>> /\ s[1] = c

EndsWith(s, c) == s # <<>> /\ Last(s) = c

\* one layer of matching quotes removed, if present
Unquote(s) ==
    IF /\ Len(s) >= 2
       /\ \/ s[1] = ChQuote /\ Last(s) = ChQuote
          \/ s[1] = ChApostrophe /\ Last(s) = ChApostrophe
    THEN SubSeq(s, 2, Len(s) - 1)
    ELSE s

\* the magnitude of a run of digits and underscores
RECURSIVE DigitsValue(_, _)
DigitsValue(d, acc) ==
    IF d = <<>> THEN acc
    ELSE IF d[1] = ChUnderscore THEN DigitsValue(Tail(d), acc)
    ELSE DigitsValue(Tail(d), MulAdd(acc, 10, d[1] - ChZero))

\* int(s) for ASCII text: [ok, v]; ok = FALSE is the ValueError of int().
\* Surrounding whitespace, a sign, and single underscores between digits are
\* accepted.
int(s) ==
    LET t      == Strip(s)
        signed == t # <<>> /\ t[1] \in {ChPlus, ChMinus}
        d      == IF signed THEN Tail(t) ELSE t
        wellformed ==
            /\ d # <<>>
            /\ IsDigit(d[1])
            /\ IsDigit(Last(d))
            /\ \A i \in 1..Len(d) :
                   \/ IsDigit(d[i])
                   \/ d[i] = ChUnderscore /\ IsDigit(d[i - 1]) /\ IsDigit(d[i + 1])
        mag    == DigitsValue(d, <<>>)
    IN  IF wellformed
        THEN [ok |-> TRUE,
              v  |-> [neg |-> signed /\ t[1] = ChMinus /\ mag # <<>>,
                      mag |-> mag]]
        ELSE [ok |-> FALSE, v |-> PyInt(0)]

\* " ".join(argv)
RECURSIVE Join(_)
Join(argv) ==
    IF argv = <<>> THEN <<>>
    ELSE IF Len(argv) = 1 THEN argv[1]
    ELSE argv[1] \o <<ChSpace>> \o Join(Tail(argv))

\* the scanner of split_top_level_items before the first character
ScanStart == [depth |-> 0, current |-> <<>>, items |-> <<>>]

\* one iteration of a splitting loop on character ch; seps are the
\* characters that separate at depth 0
ScanChar(st, ch, seps) ==
    IF ch \in {ChLBracket, ChLBrace}
    THEN [st EXCEPT !.depth = @ + 1, !.current = Append(@, ch)]
    ELSE IF ch \in {ChRBracket, ChRBrace}
    THEN [st EXCEPT !.depth = @ - 1, !.current = Append(@, ch)]
    ELSE IF ch \in seps /\ st.depth = 0
    THEN IF st.current # <<>>
         THEN [st EXCEPT !.items = Append(@, Strip(st.current)),
                         !.current = <<>>]
         ELSE st
    ELSE [st EXCEPT !.current = Append(@, ch)]

RECURSIVE ScanFrom(_, _, _, _)
ScanFrom(st, s, i, seps) ==
    IF i > Len(s) THEN st
    ELSE ScanFrom(ScanChar(st, s[i], seps), s, i + 1, seps)

\* after the loop: the last item is taken
ScanFlush(st) ==
    IF st.current # <<>> THEN Append(st.items, Strip(st.current))
    ELSE st.items

NonEmpty(it) == it # <<>>

\* the depth is not looked at: every comma and space separates
ItemStepAnyDepth(st, ch) ==
    IF ch \in {ChComma, ChSpace}
    THEN IF st.current # <<>>
         THEN [st EXCEPT !.items = Append(@, Strip(st.current)),
                         !.current = <<>>]
         ELSE st
    ELSE ScanChar(st, ch, {})

\* the state of the scanner in split_top_level_items after character ch
ItemStep(st, ch) == ScanChar(st, ch, {ChComma, ChSpace})

\* what split_top_level_items returns when its loop ended in state st
ItemsReturned(st) == SelectSeq(ScanFlush(st), NonEmpty)

split_top_level_fields(s) ==
    ScanFlush(ScanFrom(ScanStart, s, 1, {ChSpace}))

RECURSIVE ItemScan(_, _, _)
ItemScan(st, s, i) ==
    IF i > Len(s) THEN st ELSE ItemScan(ItemStep(st, s[i]), s, i + 1)

split_top_level_items(s) == ItemsReturned(ItemScan(ScanStart, s, 1))

parse_scalar_value(value_str) ==
    LET t == Strip(value_str)
        n == int(t)
    IN  IF n.ok THEN make_int(n.v) ELSE make_string(Unquote(t))

\* the loop of parse_object_from_string over parts[i..]: [err, obj]
RECURSIVE ParseParts(_, _, _)
ParseParts(parts, i, fields) ==
    IF i > Len(parts) THEN [err |-> NoError, obj |-> GBObject(fields)]
    ELSE IF ~Contains(parts[i], ChColon) THEN ParseParts(parts, i + 1, fields)
    ELSE LET k       == IndexOf(parts[i], ChColon)
             name    == Strip(SubSeq(parts[i], 1, k - 1))
             val_str == Strip(SubSeq(parts[i], k + 1, Len(parts[i])))
         IN  IF name = <<>>
             THEN [err |-> EmptyObjectFieldName, obj |-> GBObject(fields)]
             ELSE ParseParts(parts, i + 1,
                      Append(fields, <<name, parse_scalar_value(val_str)>>))

parse_object_from_string(inner) ==
    ParseParts(split_top_level_items(inner), 1, <<>>)

IsBraced(it) == StartsWith(it, ChLBrace) /\ EndsWith(it, ChRBrace)

\* the loop building the list of objects from items[i..]: [err, value]
RECURSIVE ParseObjectItems(_, _, _)
ParseObjectItems(items, i, objs) ==
    IF i > Len(items)
    THEN [err |-> NoError, value |-> make_list(TYPE_OBJECT, objs)]
    ELSE LET inner_obj == Strip(SubSeq(items[i], 2, Len(items[i]) - 1))
             o         == parse_object_from_string(inner_obj)
         IN  IF o.err # NoError
             THEN [err |-> o.err, value |-> make_list(TYPE_OBJECT, objs)]
             ELSE ParseObjectItems(items, i + 1,
                      Append(objs, make_object(o.obj)))

\* the list of objects is chosen as soon as one item is wrapped in {...}
parse_value_any_braced(value_str0) ==
    LET value_str == Strip(value_str0) IN
    IF StartsWith(value_str, ChLBracket) /\ EndsWith(value_str, ChRBracket)
    THEN
      LET inner == Strip(SubSeq(value_str, 2, Len(value_str) - 1))
          items == split_top_level_items(inner)
      IN
      IF inner = <<>>
      THEN [err |-> NoError, value |-> make_list(TYPE_STRING, <<>>)]
      ELSE IF \E i \in 1..Len(items) : IsBraced(items[i])
      THEN ParseObjectItems(items, 1, <<>>)
      ELSE IF \A i \in 1..Len(items) : int(items[i]).ok
      THEN [err   |-> NoError,
            value |-> make_list(TYPE_INT,
                          [i \in 1..Len(items) |-> make_int(int(items[i]).v)])]
      ELSE [err   |-> NoError,
            value |-> make_list(TYPE_STRING,
                          [i \in 1..Len(items) |->
                               make_string(Unquote(items[i]))])]
    ELSE [err |-> NoError, value |-> parse_scalar_value(value_str)]

\* [err, value]
parse_value_from_string(value_str0) ==
    LET value_str == Strip(value_str0) IN
    IF StartsWith(value_str, ChLBracket) /\ EndsWith(value_str, ChRBracket)
    THEN
      LET inner == Strip(SubSeq(value_str, 2, Len(value_str) - 1))
          items == split_top_level_items(inner)
      IN
      IF inner = <<>>
      THEN [err |-> NoError, value |-> make_list(TYPE_STRING, <<>>)]
      ELSE IF \A i \in 1..Len(items) : IsBraced(items[i])
      THEN ParseObjectItems(items, 1, <<>>)
      ELSE IF \A i \in 1..Len(items) : int(items[i]).ok
      THEN [err   |-> NoError,
            value |-> make_list(TYPE_INT,
                          [i \in 1..Len(items) |-> make_int(int(items[i]).v)])]
      ELSE [err   |-> NoError,
            value |-> make_list(TYPE_STRING,
                          [i \in 1..Len(items) |->
                               make_string(Unquote(items[i]))])]
    ELSE [err |-> NoError, value |-> parse_scalar_value(value_str)]

\* the loop of parse_cli_args_to_object over tokens[i..]: [err, obj]
RECURSIVE ParseTokens(_, _, _)
ParseTokens(tokens, i, fields) ==
    IF i > Len(tokens) THEN [err |-> NoError, obj |-> GBObject(fields)]
    ELSE LET token == RStripCommas(Strip(tokens[i])) IN
      IF token = <<>> THEN ParseTokens(tokens, i + 1, fields)
      ELSE IF ~Contains(token, ChEquals)
      THEN [err |-> InvalidArgument, obj |-> GBObject(fields)]
      ELSE LET k         == IndexOf(token, ChEquals)
               name      == Strip(SubSeq(token, 1, k - 1))
               value_str == Strip(SubSeq(token, k + 1, Len(token)))
               val       == parse_value_from_string(value_str)
           IN  IF name = <<>>
               THEN [err |-> EmptyFieldName, obj |-> GBObject(fields)]
               ELSE IF val.err # NoError
               THEN [err |-> val.err, obj |-> GBObject(fields)]
               ELSE ParseTokens(tokens, i + 1,
                        Append(fields, <<name, val.value>>))

parse_cli_args_to_object(argv) ==
    LET cmdline == Strip(Join(argv)) IN
    IF cmdline = <<>> THEN [err |-> NoError, obj |-> GBObject(<<>>)]
    ELSE ParseTokens(split_top_level_fields(cmdline), 1, <<>>)

(***************************************************************************)
(* Inputs of the codec: small objects of the value model, within the       *)
(* limits of the data model (duplicate names allowed).                     *)
(***************************************************************************)
MaxFields == 2

NoObject == GBObject(<<>>)

NotRun == [err |-> "not run"]

Idle == [i |-> 0, depth |-> 0, current |-> <<>>, items |-> <<>>]

\* decode_galacticbuf has not been called
NoFrame == [pos |-> 0, left |-> 0, iters |-> 0, reads |-> {}, result |-> <<>>]

\* "user_id", "name", "Alice", "a", "é"
StrUserId == <<117, 115, 101, 114, 95, 105, 100>>

StrName == <<110, 97, 109, 101>>

StrAlice == <<65, 108, 105, 99, 101>>

StrA == <<97>>

StrEAcute == <<233>>

ScenarioObject ==
    GBObject(<<
        <<StrUserId, make_int(PyInt(1001))>>,
        <<StrName, make_string(StrAlice)>> >>)

CodecNames == {StrA, StrEAcute}

CodecValues ==
    { make_int(PyInt(1001)), make_int(PyInt(-2)),
      make_string(<<>>), make_string(StrAlice), make_string(StrEAcute),
      make_list(TYPE_INT, <<make_int(PyInt(7))>>),
      make_object(GBObject(<< <<StrA, make_int(PyInt(7))>> >>)) }

SeqsUpTo(S, n) == UNION {[1..k -> S] : k \in 0..n}

CodecObjects ==
    {GBObject(fs) : fs \in SeqsUpTo(CodecNames \X CodecValues, MaxFields)}
        \cup {ScenarioObject}

(***************************************************************************)
(* The codec as a state machine: an object is serialized, the bytes reach  *)
(* the decoder intact, cut short, with bytes appended or with another      *)
(* TotalLen, and are decoded.                                              *)
(***************************************************************************)
InitCodec ==
    /\ pc = "input"
    /\ obj \in CodecObjects
    /\ encoded = NotRun
    /\ raw = <<>>
    /\ decoded = NotRun
    /\ frame = NoFrame
    /\ orders = <<>>
    /\ ret = NotRun
    /\ text = <<>>
    /\ scan = Idle
    /\ parsed = NotRun

Serialize ==
    /\ pc = "input"
    /\ encoded' = serialize_message(obj)
    /\ pc' = "encoded"
    /\ UNCHANGED <<obj, raw, decoded, text, scan, parsed, frame, orders, ret>>

Receive(b) ==
    /\ raw' = b
    /\ pc' = "received"
    /\ UNCHANGED <<obj, encoded, decoded, text, scan, parsed, frame, orders, ret>>

Sent == pc = "encoded" /\ encoded.err = NoError

Deliver ==
    /\ Sent
    /\ Receive(encoded.bytes)

Truncate ==
    /\ Sent
    /\ \E k \in 1..(Len(encoded.bytes) - 1) :
           Receive(SubSeq(encoded.bytes, 1, k))

AppendBytes ==
    /\ Sent
    /\ \E b \in {0, 1} : Receive(Append(encoded.bytes, b))

RewriteTotalLen ==
    /\ Sent
    /\ \E d \in {Len(encoded.bytes) - 1, Len(encoded.bytes) + 1} :
           Receive(write_u16(SubSeq(encoded.bytes, 1, 2), d)
                       \o SubSeq(encoded.bytes, 5, Len(encoded.bytes)))

Decode ==
    /\ pc = "received"
    /\ decoded' = decode_galacticbuf(raw)
    /\ pc' = "decoded"
    /\ UNCHANGED <<obj, encoded, raw, text, scan, parsed, frame, orders, ret>>

NextCodec ==
    \/ Serialize
    \/ Deliver
    \/ Truncate
    \/ AppendBytes
    \/ RewriteTotalLen
    \/ Decode

SpecCodec == InitCodec /\ [][NextCodec]_vars

(***************************************************************************)
(* Properties of the codec.                                                *)
(***************************************************************************)
\* a decoded Python value against a value of the model
SameValue(pv, gv) ==
    IF gv.type = TYPE_INT THEN pv.py = "int" /\ pv.val = gv.int_value
    ELSE IF gv.type = TYPE_STRING THEN pv.py = "str" /\ pv.val = gv.string_value
    ELSE FALSE

\* the decoded fields are the fields of the object, in the same order
SameFields(result, fields) ==
    /\ Len(result) = Len(fields)
    /\ \A i \in 1..Len(fields) :
           /\ result[i][1] = fields[i][1]
           /\ SameValue(result[i][2], fields[i][2])

TotalLenOf(b) == (b[3] * 256) + b[4]

IsProperPrefix(p, b) ==
    /\ Len(p) >= 1
    /\ Len(p) < Len(b)
    /\ p = SubSeq(b, 1, Len(p))

\* C1: round trip.  Decoding the bytes returned by serialize_message(v)
\* succeeds and yields the fields of v, in the same order, with equal values.
RoundTrip ==
    (pc = "decoded" /\ raw = encoded.bytes)
        => (decoded.err = NoError /\ SameFields(decoded.result, obj.fields))

\* C2: strict length enforcement.  An input whose TotalLen field differs
\* from its number of bytes makes the decoder fail (no value is returned).
StrictLength ==
    (pc = "decoded" /\ Len(raw) >= 4 /\ TotalLenOf(raw) # Len(raw))
        => decoded.err # NoError

\* C3: truncation safety.  Decoding a shorter non-empty prefix of a message
\* returned by serialize_message fails.
TruncationSafety ==
    (pc = "decoded" /\ IsProperPrefix(raw, encoded.bytes))
        => decoded.err # NoError

\* C4: exact consumption.  When the decoder has read field_count fields and
\* returns, its read position is the length of the input.
ExactConsumption ==
    (pc = "decoded" /\ decoded.err = NoError) => decoded.pos = Len(raw)

\* C7 as stated: the message of the scalar scenario starts 01 02 00 19
\* (total length 25).
ScalarScenarioLength25 ==
    (pc = "encoded" /\ obj = ScenarioObject)
        => (encoded.err = NoError
            /\ SubSeq(encoded.bytes, 1, 4) = <<1, 2, 0, 25>>)

\* C7: the message of the scalar scenario is 01 02 00 22 (version 1, 2
\* fields, total length 34) followed by the block of user_id (name length 7,
\* the name, tag 1, 1001 in 8 bytes) and the block of name (name length 4,
\* the name, tag 2, length 5, "Alice").
ScalarScenario ==
    (pc = "encoded" /\ obj = ScenarioObject)
        => (/\ encoded.err = NoError
            /\ encoded.bytes =
                   <<1, 2, 0, 34>>
                   \o <<7, 117, 115, 101, 114, 95, 105, 100,
                        1, 0, 0, 0, 0, 0, 0, 3, 233>>
                   \o <<4, 110, 97, 109, 101, 2, 0, 5, 65, 108, 105, 99, 101>>)

ScalarScenarioEncoded ==
    pc = "encoded" /\ obj = ScenarioObject /\ Len(encoded.bytes) = 34

(***************************************************************************)
(* Inputs of the serializer alone: objects at the ceilings of the format   *)
(* (field counts around 255, message lengths around 65535), and lists of   *)
(* every declared element type, at the top level and nested.               *)
(***************************************************************************)
Margin == 2

MaxElems == 2

Near(c) == (c - Margin)..(c + Margin)

FieldCounts == (0..Margin) \cup Near(MaxU8)

Shapes == {"top", "nested", "element"}

\* value v as the only field of a top-level object, of an object that is a
\* field value, or of an object that is a list element
Placed(shape, v) ==
    IF shape = "top" THEN GBObject(<< <<StrA, v>> >>)
    ELSE IF shape = "nested"
         THEN GBObject(<< <<StrA,
                  make_object(GBObject(<< <<StrA, v>> >>))>> >>)
    ELSE GBObject(<< <<StrA,
             make_list(TYPE_OBJECT,
                 << make_object(GBObject(<< <<StrA, v>> >>)) >>)>> >>)

ManyFields(n) == GBObject(Repeat(<<StrA, make_int(PyInt(7))>>, n))

ManyFieldsObjects ==
    {ManyFields(n) : n \in FieldCounts}
        \cup {Placed(shape, make_object(ManyFields(n))) :
                  shape \in {"top", "element"}, n \in FieldCounts}

\* a message of one field named "a" holding a string of n bytes has 9 + n
\* bytes; "é" takes two bytes
LongStringObjects ==
    {Placed("top", make_string(Repeat(97, n))) :
         n \in Near(MaxU16 - 9) \cup Near(MaxU16)}
        \cup {Placed("top", make_string(Repeat(233, n))) :
                  n \in Near((MaxU16 - 9) \div 2)}

LongNameObjects ==
    {GBObject(<< <<Repeat(97, n), make_int(PyInt(7))>> >>) :
         n \in (0..1) \cup Near(MaxU8)}

ElementPool ==
    { make_int(PyInt(7)),
      make_string(StrA),
      make_object(GBObject(<< <<StrA, make_int(PyInt(7))>> >>)),
      make_list(TYPE_INT, <<make_int(PyInt(7))>>),
      make_object(GBObject(<< <<StrA,
          make_list(TYPE_INT, <<make_string(StrA)>>)>> >>)) }

ListValues ==
    {make_list(t, elems) :
         t \in {TYPE_INT, TYPE_STRING, TYPE_LIST, TYPE_OBJECT},
         elems \in SeqsUpTo(ElementPool, MaxElems)}

ListObjects == {Placed(shape, v) : shape \in Shapes, v \in ListValues}

EncoderObjects ==
    ManyFieldsObjects \cup LongStringObjects \cup LongNameObjects
        \cup ListObjects

InitEncoder ==
    /\ pc = "input"
    /\ obj \in EncoderObjects
    /\ encoded = NotRun
    /\ raw = <<>>
    /\ decoded = NotRun
    /\ frame = NoFrame
    /\ orders = <<>>
    /\ ret = NotRun
    /\ text = <<>>
    /\ scan = Idle
    /\ parsed = NotRun

NextEncoder == Serialize

SpecEncoder == InitEncoder /\ [][NextEncoder]_vars

(***************************************************************************)
(* Properties of the serializer, stated on the value model and the wire    *)
(* format rather than on the writers.                                      *)
(***************************************************************************)
RECURSIVE Sum(_)
Sum(q) == IF q = <<>> THEN 0 ELSE q[1] + Sum(Tail(q))

\* the number of bytes the wire format gives a value, its tag excluded
RECURSIVE PayloadSize(_)
FieldSize(f) == 1 + Len(Utf8Encode(f[1])) + 1 + PayloadSize(f[2])

PayloadSize(v) ==
    IF v.type = TYPE_INT THEN 8
    ELSE IF v.type = TYPE_STRING THEN 2 + Len(Utf8Encode(v.string_value))
    ELSE IF v.type = TYPE_LIST
         THEN 3 + Sum([i \in 1..Len(v.list_value.elements) |->
                           PayloadSize(v.list_value.elements[i])])
    ELSE 1 + Sum([i \in 1..Len(v.object_value.fields) |->
                      FieldSize(v.object_value.fields[i])])

BodySize(o) == Sum([i \in 1..Len(o.fields) |-> FieldSize(o.fields[i])])

\* the invariants of the data model below the top level
RECURSIVE ValidValue(_)
ValidField(f) ==
    /\ Len(Utf8Encode(f[1])) \in 1..MaxU8
    /\ ValidValue(f[2])

ValidValue(v) ==
    IF v.type = TYPE_INT THEN InInt64(v.int_value)
    ELSE IF v.type = TYPE_STRING THEN Len(Utf8Encode(v.string_value)) <= MaxU16
    ELSE IF v.type = TYPE_LIST
         THEN /\ v.list_value.element_type
                     \in {TYPE_INT, TYPE_STRING, TYPE_OBJECT}
              /\ Len(v.list_value.elements) <= MaxU16
              /\ \A i \in 1..Len(v.list_value.elements) :
                     /\ v.list_value.elements[i].type
                            = v.list_value.element_type
                     /\ ValidValue(v.list_value.elements[i])
    ELSE /\ Len(v.object_value.fields) <= MaxU8
         /\ \A i \in 1..Len(v.object_value.fields) :
                ValidField(v.object_value.fields[i])

ValidFields(o) == \A i \in 1..Len(o.fields) : ValidField(o.fields[i])

\* some object inside the value has more than 255 fields
RECURSIVE HasTooManyFields(_)
HasTooManyFields(v) ==
    IF v.type = TYPE_LIST
    THEN \E i \in 1..Len(v.list_value.elements) :
             HasTooManyFields(v.list_value.elements[i])
    ELSE IF v.type = TYPE_OBJECT
    THEN \/ Len(v.object_value.fields) > MaxU8
         \/ \E i \in 1..Len(v.object_value.fields) :
                HasTooManyFields(v.object_value.fields[i][2])
    ELSE FALSE

\* some list inside the value has an element of another tag than declared
RECURSIVE HasMismatch(_)
HasMismatch(v) ==
    IF v.type = TYPE_LIST
    THEN \E i \in 1..Len(v.list_value.elements) :
             \/ v.list_value.elements[i].type # v.list_value.element_type
             \/ HasMismatch(v.list_value.elements[i])
    ELSE IF v.type = TYPE_OBJECT
    THEN \E i \in 1..Len(v.object_value.fields) :
             HasMismatch(v.object_value.fields[i][2])
    ELSE FALSE

\* some list inside the value declares the element type List
RECURSIVE HasListOfLists(_)
HasListOfLists(v) ==
    IF v.type = TYPE_LIST
    THEN \/ v.list_value.element_type = TYPE_LIST
         \/ \E i \in 1..Len(v.list_value.elements) :
                HasListOfLists(v.list_value.elements[i])
    ELSE IF v.type = TYPE_OBJECT
    THEN \E i \in 1..Len(v.object_value.fields) :
             HasListOfLists(v.object_value.fields[i][2])
    ELSE FALSE

\* C5: field-count ceiling.  An object of more than 255 fields, at the top
\* level or nested, makes serialize_message fail with TooManyFields, and the
\* field-count byte of a returned message is the number of top-level fields.
FieldCountCeiling ==
    pc = "encoded" =>
        /\ (Len(obj.fields) > MaxU8 \/ HasTooManyFields(make_object(obj)))
               => encoded.err = TooManyFields
        /\ encoded.err = NoError => encoded.bytes[2] = Len(obj.fields)

\* C6: header well-formedness.  A returned message starts with 1, holds its
\* own length (4 + body length, at most 65535) in bytes 2-3, and an object
\* whose body has more than 65531 bytes fails with MessageTooLarge.
HeaderWellFormed ==
    pc = "encoded" =>
        /\ encoded.err = NoError =>
               /\ encoded.bytes[1] = 1
               /\ TotalLenOf(encoded.bytes) = Len(encoded.bytes)
               /\ Len(encoded.bytes) = 4 + BodySize(obj)
               /\ Len(encoded.bytes) <= MaxU16
        /\ encoded.err = MessageTooLarge => 4 + BodySize(obj) > MaxU16
        /\ (ValidFields(obj) /\ 4 + BodySize(obj) > MaxU16)
               => (encoded.err = MessageTooLarge /\ encoded.bytes = <<>>)

LargestMessage ==
    pc = "encoded" /\ encoded.err = NoError /\ Len(encoded.bytes) = MaxU16

\* C8: list homogeneity.  A list with an element of another tag than the
\* declared one, at any depth, makes serialize_message fail with
\* ListElementTypeMismatch, and a list declared with element type List is
\* rejected as well.
ListHomogeneity ==
    pc = "encoded" =>
        /\ (HasMismatch(make_object(obj)) /\ ~HasListOfLists(make_object(obj)))
               => encoded.err = ListElementTypeMismatch
        /\ HasListOfLists(make_object(obj)) => encoded.err # NoError

(***************************************************************************)
(* split_top_level_items, one character at a time: scan holds the position *)
(* i, the depth, the current item and the items of the loop.               *)
(***************************************************************************)
MaxSplitLen == 4

\* "a, {x:1, y:2}, b"
SplitExample == <<97, 44, 32, 123, 120, 58, 49, 44, 32, 121, 58, 50, 125, 44, 32, 98>>

\* a , space tab { } [ ]
SplitAlphabet == {97, ChComma, ChSpace, 9, ChLBrace, ChRBrace, ChLBracket,
                  ChRBracket}

SplitTexts == SeqsUpTo(SplitAlphabet, MaxSplitLen) \cup {SplitExample}

InitSplit ==
    /\ pc = "input"
    /\ text \in SplitTexts
    /\ scan = Idle
    /\ parsed = NotRun
    /\ obj = NoObject
    /\ encoded = NotRun
    /\ raw = <<>>
    /\ decoded = NotRun
    /\ frame = NoFrame
    /\ orders = <<>>
    /\ ret = NotRun

SplitChar ==
    /\ pc \in {"input", "splitting"}
    /\ scan.i < Len(text)
    /\ scan' = [ItemStep(scan, text[scan.i + 1]) EXCEPT !.i = scan.i + 1]
    /\ pc' = "splitting"
    /\ UNCHANGED <<text, parsed, obj, encoded, raw, decoded, frame, orders, ret>>

SplitReturn ==
    /\ pc \in {"input", "splitting"}
    /\ scan.i = Len(text)
    /\ parsed' = [err |-> NoError, items |-> ItemsReturned(scan)]
    /\ pc' = "split"
    /\ UNCHANGED <<text, scan, obj, encoded, raw, decoded, frame, orders, ret>>

NextSplit == SplitChar \/ SplitReturn

SpecSplit == InitSplit /\ [][NextSplit]_vars

\* the character read by the step that has just been taken
CharRead == text[scan'.i]

IsSeparator(c) == c \in {ChComma, ChSpace}

IsOpening(c) == c \in {ChLBracket, ChLBrace}

IsClosing(c) == c \in {ChRBracket, ChRBrace}

\* a step of the loop: the depth follows the brackets, an item is taken only
\* at a comma or space read at depth 0, and a comma or space read inside a
\* bracket stays in the current item
SplitStepAtDepthZero ==
    pc' = "splitting" =>
        /\ scan'.depth = scan.depth
               + (IF IsOpening(CharRead) THEN 1
                  ELSE IF IsClosing(CharRead) THEN -1 ELSE 0)
        /\ Len(scan'.items) > Len(scan.items)
               => (IsSeparator(CharRead) /\ scan.depth = 0)
        /\ (IsSeparator(CharRead) /\ scan.depth = 0 /\ scan.current # <<>>)
               => (Len(scan'.items) = Len(scan.items) + 1
                   /\ scan'.current = <<>>)
        /\ (IsSeparator(CharRead) /\ scan.depth # 0)
               => (scan'.items = scan.items
                   /\ scan'.current = Append(scan.current, CharRead))

\* C9: depth-aware item splitting.  split_top_level_items splits only at
\* commas and spaces at bracket depth 0, never at a separator inside an open
\* bracket, returns no empty item, and splits "a, {x:1, y:2}, b" into "a",
\* "{x:1, y:2}", "b".
DepthAwareSplit ==
    /\ [][SplitStepAtDepthZero]_vars
    /\ [](pc = "split" =>
            /\ \A k \in 1..Len(parsed.items) : parsed.items[k] # <<>>
            /\ text = SplitExample =>
                   parsed.items = << <<97>>, <<123, 120, 58, 49, 44, 32, 121, 58, 50, 125>>, <<98>> >>)

SplitExampleReturned ==
    pc = "split" /\ text = SplitExample /\ Len(parsed.items) = 3

(***************************************************************************)
(* parse_value_from_string and parse_cli_args_to_object on list values:    *)
(* "[" interior "]" for every short interior, and the documented examples. *)
(***************************************************************************)
MaxInner == 4

\* 1 a , space { } : -
ValueAlphabet == {49, 97, ChComma, ChSpace, ChLBrace, ChRBrace, ChColon,
                  ChMinus}

\* "[100,200,300]"
ScoresText == <<91, 49, 48, 48, 44, 50, 48, 48, 44, 51, 48, 48, 93>>

\* "[{id:1, price:100},{id:2, price:200}]"
TradesText == <<91, 123, 105, 100, 58, 49, 44, 32, 112, 114, 105, 99, 101, 58, 49, 48, 48, 125, 44, 123, 105, 100, 58, 50, 44, 32, 112, 114, 105, 99, 101, 58, 50, 48, 48, 125, 93>>

\* "['x', "y", z]"
QuotedText == <<91, 39, 120, 39, 44, 32, 34, 121, 34, 44, 32, 122, 93>>

\* "scores=[100,200,300]"
ScoresLine == <<115, 99, 111, 114, 101, 115, 61, 91, 49, 48, 48, 44, 50, 48, 48, 44, 51, 48, 48, 93>>

\* "trades=[{id:1, price:100},{id:2, price:200}]"
TradesLine == <<116, 114, 97, 100, 101, 115, 61, 91, 123, 105, 100, 58, 49, 44, 32, 112, 114, 105, 99, 101, 58, 49, 48, 48, 125, 44, 123, 105, 100, 58, 50, 44, 32, 112, 114, 105, 99, 101, 58, 50, 48, 48, 125, 93>>

StrScores == <<115, 99, 111, 114, 101, 115>>

StrTrades == <<116, 114, 97, 100, 101, 115>>

StrId == <<105, 100>>

StrPrice == <<112, 114, 105, 99, 101>>

Bracketed(inner) == <<ChLBracket>> \o inner \o <<ChRBracket>>

ValueTexts ==
    {Bracketed(inner) : inner \in SeqsUpTo(ValueAlphabet, MaxInner)}
        \cup {ScoresText, TradesText, QuotedText}

InitParse ==
    /\ pc = "input"
    /\ text \in ValueTexts
    /\ scan = Idle
    /\ parsed = NotRun
    /\ obj = NoObject
    /\ encoded = NotRun
    /\ raw = <<>>
    /\ decoded = NotRun
    /\ frame = NoFrame
    /\ orders = <<>>
    /\ ret = NotRun

ParseValue ==
    /\ pc = "input"
    /\ parsed' = parse_value_from_string(text)
    /\ pc' = "value"
    /\ UNCHANGED <<text, scan, obj, encoded, raw, decoded, frame, orders, ret>>

\* the command line name=text, which becomes the text parsed
ParseArgs ==
    /\ pc = "input"
    /\ \E name \in {StrScores, StrTrades} :
           /\ text' = name \o <<ChEquals>> \o text
           /\ parsed' = parse_cli_args_to_object(<<text'>>)
    /\ pc' = "args"
    /\ UNCHANGED <<scan, obj, encoded, raw, decoded, frame, orders, ret>>

NextParse == ParseValue \/ ParseArgs

SpecParse == InitParse /\ [][NextParse]_vars

(***************************************************************************)
(* Properties of the list grammar.                                         *)
(***************************************************************************)
\* the interior of a value wrapped in [...] and its items
InteriorOf(t) == Strip(SubSeq(Strip(t), 2, Len(Strip(t)) - 1))

ItemsOf(t) == split_top_level_items(InteriorOf(t))

\* an optional sign and one or more decimal digits
IsDecimal(it) ==
    LET d == IF it # <<>> /\ it[1] \in {ChPlus, ChMinus} THEN Tail(it) ELSE it
    IN  d # <<>> /\ \A i \in 1..Len(d) : IsDigit(d[i])

\* the object item has a pair whose name, before its first ':', is empty
HasEmptyName(it) ==
    LET parts == split_top_level_items(Strip(SubSeq(it, 2, Len(it) - 1)))
    IN  \E k \in 1..Len(parts) :
            /\ Contains(parts[k], ChColon)
            /\ Strip(SubSeq(parts[k], 1, IndexOf(parts[k], ChColon) - 1)) = <<>>

\* the element type the priority order gives the items
ClassOf(items) ==
    IF \A k \in 1..Len(items) : IsBraced(items[k]) THEN TYPE_OBJECT
    ELSE IF \A k \in 1..Len(items) : IsDecimal(items[k]) THEN TYPE_INT
    ELSE TYPE_STRING

\* a list of the given element type, every element of that type
IsListOf(v, t) ==
    /\ v.type = TYPE_LIST
    /\ v.list_value.element_type = t
    /\ \A k \in 1..Len(v.list_value.elements) :
           v.list_value.elements[k].type = t

IntField(name, n) == <<name, make_int(PyInt(n))>>

ScoresValue ==
    make_list(TYPE_INT,
        <<make_int(PyInt(100)), make_int(PyInt(200)), make_int(PyInt(300))>>)

TradesValue ==
    make_list(TYPE_OBJECT,
        << make_object(GBObject(<<IntField(StrId, 1), IntField(StrPrice, 100)>>)),
           make_object(GBObject(<<IntField(StrId, 2), IntField(StrPrice, 200)>>)) >>)

\* the two documented command lines give the documented objects
ListExamples ==
    /\ (pc = "args" /\ text = ScoresLine)
           => (parsed.err = NoError
               /\ parsed.obj = GBObject(<< <<StrScores, ScoresValue>> >>))
    /\ (pc = "args" /\ text = TradesLine)
           => (parsed.err = NoError
               /\ parsed.obj = GBObject(<< <<StrTrades, TradesValue>> >>))

\* C10 as stated: a value wrapped in [...] always yields a list: empty and
\* String-typed for an empty interior, otherwise typed Object, Int or String
\* by the priority order, every element of the declared type.
ListClassificationAlwaysYields ==
    /\ pc = "value" =>
           /\ parsed.err = NoError
           /\ IF InteriorOf(text) = <<>>
              THEN parsed.value = make_list(TYPE_STRING, <<>>)
              ELSE IsListOf(parsed.value, ClassOf(ItemsOf(text)))
    /\ ListExamples

\* C10: the same, except that an Object-typed list whose items hold a pair
\* with an empty name is not produced: the parse fails with "Empty object
\* field name".
ListClassification ==
    /\ pc = "value" =>
           IF InteriorOf(text) = <<>>
           THEN parsed.err = NoError
                /\ parsed.value = make_list(TYPE_STRING, <<>>)
           ELSE IF /\ ClassOf(ItemsOf(text)) = TYPE_OBJECT
                   /\ \E k \in 1..Len(ItemsOf(text)) :
                          HasEmptyName(ItemsOf(text)[k])
           THEN parsed.err = EmptyObjectFieldName
           ELSE /\ parsed.err = NoError
                /\ IsListOf(parsed.value, ClassOf(ItemsOf(text)))
                /\ Len(parsed.value.list_value.elements) = Len(ItemsOf(text))
    /\ ListExamples

TradesParsed ==
    /\ pc = "args"
    /\ text = TradesLine
    /\ parsed.err = NoError
    /\ Len(parsed.obj.fields) = 1
    /\ parsed.obj.fields[1][2].list_value.element_type = TYPE_OBJECT

(***************************************************************************)
(* parse_object_from_string on the interior of a {...} item: every short   *)
(* interior, and the interior of the documented example.                   *)
(***************************************************************************)
\* "id:1, price:100"
PairsText == <<105, 100, 58, 49, 44, 32, 112, 114, 105, 99, 101, 58, 49, 48, 48>>

ObjectTexts == SeqsUpTo(ValueAlphabet, MaxInner) \cup {PairsText}

InitObject ==
    /\ pc = "input"
    /\ text \in ObjectTexts
    /\ scan = Idle
    /\ parsed = NotRun
    /\ obj = NoObject
    /\ encoded = NotRun
    /\ raw = <<>>
    /\ decoded = NotRun
    /\ frame = NoFrame
    /\ orders = <<>>
    /\ ret = NotRun

ParseObject ==
    /\ pc = "input"
    /\ parsed' = parse_object_from_string(text)
    /\ pc' = "object"
    /\ UNCHANGED <<text, scan, obj, encoded, raw, decoded, frame, orders, ret>>

NextObject == ParseObject

SpecObject == InitObject /\ [][NextObject]_vars

\* C11: object-grammar strictness.  An item of the interior without ':'
\* makes parse_object_from_string fail, and an Object that is returned has
\* one field per item of the interior.
ObjectStrictness ==
    pc = "object" =>
        /\ (\E k \in 1..Len(split_top_level_items(text)) :
                ~Contains(split_top_level_items(text)[k], ChColon))
               => parsed.err # NoError
        /\ parsed.err = NoError
               => Len(parsed.obj.fields) = Len(split_top_level_items(text))

(***************************************************************************)
(* decode_galacticbuf on adversarial input, one statement group at a time: *)
(* the header, then one step per iteration of the field loop.  The inputs  *)
(* are every byte sequence shorter than 4 bytes and every header followed  *)
(* by a short body, over bytes that are type tags, lengths, a name         *)
(* character and a byte that is not UTF-8.                                 *)
(***************************************************************************)
MaxBody == 4

DecoderBytes == {0, 1, 2, 3, 255}

DecoderHeaders ==
    {<<1, count, len, len>> : count \in {0, 1, 2, 255}, len \in {0, 255}}

AdversarialInputs ==
    SeqsUpTo(DecoderBytes, 3)
        \cup {h \o body : h \in DecoderHeaders,
                          body \in SeqsUpTo(DecoderBytes, MaxBody)}

InitDecoder ==
    /\ pc = "call"
    /\ raw \in AdversarialInputs
    /\ decoded = NotRun
    /\ frame = NoFrame
    /\ obj = NoObject
    /\ encoded = NotRun
    /\ text = <<>>
    /\ scan = Idle
    /\ parsed = NotRun
    /\ orders = <<>>
    /\ ret = NotRun

\* lines 44-54: the header is read, or the call ends with an exception
ReadHeader ==
    /\ pc = "call"
    /\ LET header == DecodeHeader(raw)
       IN  /\ frame' = [pos |-> header.pos, left |-> header.field_count,
                        iters |-> 0, reads |-> header.reads,
                        result |-> <<>>]
           /\ IF header.err # NoError
              THEN /\ decoded' = Failed(header.err, header.pos)
                   /\ pc' = "decoded"
              ELSE /\ pc' = "loop"
                   /\ UNCHANGED decoded
    /\ UNCHANGED <<obj, encoded, raw, text, scan, parsed, orders, ret>>

\* lines 56-82: one iteration of for _ in range(field_count)
LoopField ==
    /\ pc = "loop"
    /\ frame.left > 0
    /\ LET field == DecodeField(raw, frame.pos, frame.result)
       IN  /\ frame' = [pos |-> field.pos, left |-> frame.left - 1,
                        iters |-> frame.iters + 1,
                        reads |-> frame.reads \cup field.reads,
                        result |-> field.result]
           /\ IF field.err # NoError
              THEN /\ decoded' = Failed(field.err, field.pos)
                   /\ pc' = "decoded"
              ELSE UNCHANGED <<pc, decoded>>
    /\ UNCHANGED <<obj, encoded, raw, text, scan, parsed, orders, ret>>

\* line 84: return result
LoopExit ==
    /\ pc = "loop"
    /\ frame.left = 0
    /\ decoded' = [err |-> NoError, result |-> frame.result,
                   pos |-> frame.pos]
    /\ pc' = "decoded"
    /\ UNCHANGED <<obj, encoded, raw, text, scan, parsed, frame, orders, ret>>

NextDecoder == ReadHeader \/ LoopField \/ LoopExit

\* the call is one sequential run: a statement that can execute does
SpecDecoder == InitDecoder /\ [][NextDecoder]_vars /\ WF_vars(NextDecoder)

DecoderErrors ==
    {IndexError, InvalidMagic, UnsupportedType, UnicodeDecodeError}

\* the steps end with what the function returns or raises
DecoderStepsAgree == pc = "decoded" => decoded = decode_galacticbuf(raw)

\* C12: decoder safety on adversarial input.  Every call ends, with a dict
\* or with an exception; every byte it obtains by index comes from a
\* position of the input; the field loop runs at most field_count (<= 255)
\* times; an input shorter than 4 bytes ends in an exception.
DecoderSafety ==
    /\ [](/\ \A p \in frame.reads : 0 <= p /\ p < Len(raw)
          /\ pc = "loop" => /\ frame.iters + frame.left = raw[2]
                            /\ raw[2] <= MaxU8
          /\ pc = "decoded" =>
                /\ decoded.err \in DecoderErrors \cup {NoError}
                /\ Len(raw) >= 2 /\ raw[1] = 1 => frame.iters <= raw[2]
                /\ Len(raw) < 4 => decoded.err # NoError)
    /\ <>(pc = "decoded")

\* a header that announces 255 fields over a body that holds one: the second
\* iteration ends the call with IndexError
DecoderCutShort ==
    /\ pc = "decoded"
    /\ Len(raw) >= 4
    /\ raw[2] = 255
    /\ frame.iters = 2
    /\ decoded.err = IndexError

(***************************************************************************)
(* __main__ on one argument name=value whose value holds a base-10 integer *)
(* literal: parse_cli_args_to_object, then serialize_message.  The literal *)
(* stands alone, in a list, or in a field of an object of a list.          *)
(***************************************************************************)
\* the literals: text, value, whether -2**63 <= value < 2**63, and the 8
\* bytes of the value in big-endian two's complement
IntCases == {
    \* 0
    [lit |-> <<48>>,
     v |-> [neg |-> FALSE, mag |-> <<>>],
     inrange |-> TRUE, bytes |-> <<0, 0, 0, 0, 0, 0, 0, 0>>],
    \* -0
    [lit |-> <<45, 48>>,
     v |-> [neg |-> FALSE, mag |-> <<>>],
     inrange |-> TRUE, bytes |-> <<0, 0, 0, 0, 0, 0, 0, 0>>],
    \* +0
    [lit |-> <<43, 48>>,
     v |-> [neg |-> FALSE, mag |-> <<>>],
     inrange |-> TRUE, bytes |-> <<0, 0, 0, 0, 0, 0, 0, 0>>],
    \* 1
    [lit |-> <<49>>,
     v |-> [neg |-> FALSE, mag |-> <<1>>],
     inrange |-> TRUE, bytes |-> <<0, 0, 0, 0, 0, 0, 0, 1>>],
    \* -1
    [lit |-> <<45, 49>>,
     v |-> [neg |-> TRUE, mag |-> <<1>>],
     inrange |-> TRUE, bytes |-> <<255, 255, 255, 255, 255, 255, 255, 255>>],
    \* +1
    [lit |-> <<43, 49>>,
     v |-> [neg |-> FALSE, mag |-> <<1>>],
     inrange |-> TRUE, bytes |-> <<0, 0, 0, 0, 0, 0, 0, 1>>],
    \* 127
    [lit |-> <<49, 50, 55>>,
     v |-> [neg |-> FALSE, mag |-> <<127>>],
     inrange |-> TRUE, bytes |-> <<0, 0, 0, 0, 0, 0, 0, 127>>],
    \* -127
    [lit |-> <<45, 49, 50, 55>>,
     v |-> [neg |-> TRUE, mag |-> <<127>>],
     inrange |-> TRUE, bytes |-> <<255, 255, 255, 255, 255, 255, 255, 129>>],
    \* +127
    [lit |-> <<43, 49, 50, 55>>,
     v |-> [neg |-> FALSE, mag |-> <<127>>],
     inrange |-> TRUE, bytes |-> <<0, 0, 0, 0, 0, 0, 0, 127>>],
    \* 128
    [lit |-> <<49, 50, 56>>,
     v |-> [neg |-> FALSE, mag |-> <<128>>],
     inrange |-> TRUE, bytes |-> <<0, 0, 0, 0, 0, 0, 0, 128>>],
    \* -128
    [lit |-> <<45, 49, 50, 56>>,
     v |-> [neg |-> TRUE, mag |-> <<128>>],
     inrange |-> TRUE, bytes |-> <<255, 255, 255, 255, 255, 255, 255, 128>>],
    \* +128
    [lit |-> <<43, 49, 50, 56>>,
     v |-> [neg |-> FALSE, mag |-> <<128>>],
     inrange |-> TRUE, bytes |-> <<0, 0, 0, 0, 0, 0, 0, 128>>],
    \* 255
    [lit |-> <<50, 53, 53>>,
     v |-> [neg |-> FALSE, mag |-> <<255>>],
     inrange |-> TRUE, bytes |-> <<0, 0, 0, 0, 0, 0, 0, 255>>],
    \* -255
    [lit |-> <<45, 50, 53, 53>>,
     v |-> [neg |-> TRUE, mag |-> <<255>>],
     inrange |-> TRUE, bytes |-> <<255, 255, 255, 255, 255, 255, 255, 1>>],
    \* +255
    [lit |-> <<43, 50, 53, 53>>,
     v |-> [neg |-> FALSE, mag |-> <<255>>],
     inrange |-> TRUE, bytes |-> <<0, 0, 0, 0, 0, 0, 0, 255>>],
    \* 256
    [lit |-> <<50, 53, 54>>,
     v |-> [neg |-> FALSE, mag |-> <<1, 0>>],
     inrange |-> TRUE, bytes |-> <<0, 0, 0, 0, 0, 0, 1, 0>>],
    \* -256
    [lit |-> <<45, 50, 53, 54>>,
     v |-> [neg |-> TRUE, mag |-> <<1, 0>>],
     inrange |-> TRUE, bytes |-> <<255, 255, 255, 255, 255, 255, 255, 0>>],
    \* +256
    [lit |-> <<43, 50, 53, 54>>,
     v |-> [neg |-> FALSE, mag |-> <<1, 0>>],
     inrange |-> TRUE, bytes |-> <<0, 0, 0, 0, 0, 0, 1, 0>>],
    \* 2147483648
    [lit |-> <<50, 49, 52, 55, 52, 56, 51, 54, 52, 56>>,
     v |-> [neg |-> FALSE, mag |-> <<128, 0, 0, 0>>],
     inrange |-> TRUE, bytes |-> <<0, 0, 0, 0, 128, 0, 0, 0>>],
    \* -2147483648
    [lit |-> <<45, 50, 49, 52, 55, 52, 56, 51, 54, 52, 56>>,
     v |-> [neg |-> TRUE, mag |-> <<128, 0, 0, 0>>],
     inrange |-> TRUE, bytes |-> <<255, 255, 255, 255, 128, 0, 0, 0>>],
    \* +2147483648
    [lit |-> <<43, 50, 49, 52, 55, 52, 56, 51, 54, 52, 56>>,
     v |-> [neg |-> FALSE, mag |-> <<128, 0, 0, 0>>],
     inrange |-> TRUE, bytes |-> <<0, 0, 0, 0, 128, 0, 0, 0>>],
    \* 4294967296
    [lit |-> <<52, 50, 57, 52, 57, 54, 55, 50, 57, 54>>,
     v |-> [neg |-> FALSE, mag |-> <<1, 0, 0, 0, 0>>],
     inrange |-> TRUE, bytes |-> <<0, 0, 0, 1, 0, 0, 0, 0>>],
    \* -4294967296
    [lit |-> <<45, 52, 50, 57, 52, 57, 54, 55, 50, 57, 54>>,
     v |-> [neg |-> TRUE, mag |-> <<1, 0, 0, 0, 0>>],
     inrange |-> TRUE, bytes |-> <<255, 255, 255, 255, 0, 0, 0, 0>>],
    \* +4294967296
    [lit |-> <<43, 52, 50, 57, 52, 57, 54, 55, 50, 57, 54>>,
     v |-> [neg |-> FALSE, mag |-> <<1, 0, 0, 0, 0>>],
     inrange |-> TRUE, bytes |-> <<0, 0, 0, 1, 0, 0, 0, 0>>],
    \* 9223372036854775807
    [lit |-> <<57, 50, 50, 51, 51, 55, 50, 48, 51, 54, 56, 53, 52, 55, 55, 53, 56, 48, 55>>,
     v |-> [neg |-> FALSE, mag |-> <<127, 255, 255, 255, 255, 255, 255, 255>>],
     inrange |-> TRUE, bytes |-> <<127, 255, 255, 255, 255, 255, 255, 255>>],
    \* -9223372036854775807
    [lit |-> <<45, 57, 50, 50, 51, 51, 55, 50, 48, 51, 54, 56, 53, 52, 55, 55, 53, 56, 48, 55>>,
     v |-> [neg |-> TRUE, mag |-> <<127, 255, 255, 255, 255, 255, 255, 255>>],
     inrange |-> TRUE, bytes |-> <<128, 0, 0, 0, 0, 0, 0, 1>>],
    \* +9223372036854775807
    [lit |-> <<43, 57, 50, 50, 51, 51, 55, 50, 48, 51, 54, 56, 53, 52, 55, 55, 53, 56, 48, 55>>,
     v |-> [neg |-> FALSE, mag |-> <<127, 255, 255, 255, 255, 255, 255, 255>>],
     inrange |-> TRUE, bytes |-> <<127, 255, 255, 255, 255, 255, 255, 255>>],
    \* 9223372036854775808
    [lit |-> <<57, 50, 50, 51, 51, 55, 50, 48, 51, 54, 56, 53, 52, 55, 55, 53, 56, 48, 56>>,
     v |-> [neg |-> FALSE, mag |-> <<128, 0, 0, 0, 0, 0, 0, 0>>],
     inrange |-> FALSE, bytes |-> <<>>],
    \* -9223372036854775808
    [lit |-> <<45, 57, 50, 50, 51, 51, 55, 50, 48, 51, 54, 56, 53, 52, 55, 55, 53, 56, 48, 56>>,
     v |-> [neg |-> TRUE, mag |-> <<128, 0, 0, 0, 0, 0, 0, 0>>],
     inrange |-> TRUE, bytes |-> <<128, 0, 0, 0, 0, 0, 0, 0>>],
    \* +9223372036854775808
    [lit |-> <<43, 57, 50, 50, 51, 51, 55, 50, 48, 51, 54, 56, 53, 52, 55, 55, 53, 56, 48, 56>>,
     v |-> [neg |-> FALSE, mag |-> <<128, 0, 0, 0, 0, 0, 0, 0>>],
     inrange |-> FALSE, bytes |-> <<>>],
    \* 9223372036854775809
    [lit |-> <<57, 50, 50, 51, 51, 55, 50, 48, 51, 54, 56, 53, 52, 55, 55, 53, 56, 48, 57>>,
     v |-> [neg |-> FALSE, mag |-> <<128, 0, 0, 0, 0, 0, 0, 1>>],
     inrange |-> FALSE, bytes |-> <<>>],
    \* -9223372036854775809
    [lit |-> <<45, 57, 50, 50, 51, 51, 55, 50, 48, 51, 54, 56, 53, 52, 55, 55, 53, 56, 48, 57>>,
     v |-> [neg |-> TRUE, mag |-> <<128, 0, 0, 0, 0, 0, 0, 1>>],
     inrange |-> FALSE, bytes |-> <<>>],
    \* +9223372036854775809
    [lit |-> <<43, 57, 50, 50, 51, 51, 55, 50, 48, 51, 54, 56, 53, 52, 55, 55, 53, 56, 48, 57>>,
     v |-> [neg |-> FALSE, mag |-> <<128, 0, 0, 0, 0, 0, 0, 1>>],
     inrange |-> FALSE, bytes |-> <<>>],
    \* 18446744073709551615
    [lit |-> <<49, 56, 52, 52, 54, 55, 52, 52, 48, 55, 51, 55, 48, 57, 53, 53, 49, 54, 49, 53>>,
     v |-> [neg |-> FALSE, mag |-> <<255, 255, 255, 255, 255, 255, 255, 255>>],
     inrange |-> FALSE, bytes |-> <<>>],
    \* -18446744073709551615
    [lit |-> <<45, 49, 56, 52, 52, 54, 55, 52, 52, 48, 55, 51, 55, 48, 57, 53, 53, 49, 54, 49, 53>>,
     v |-> [neg |-> TRUE, mag |-> <<255, 255, 255, 255, 255, 255, 255, 255>>],
     inrange |-> FALSE, bytes |-> <<>>],
    \* +18446744073709551615
    [lit |-> <<43, 49, 56, 52, 52, 54, 55, 52, 52, 48, 55, 51, 55, 48, 57, 53, 53, 49, 54, 49, 53>>,
     v |-> [neg |-> FALSE, mag |-> <<255, 255, 255, 255, 255, 255, 255, 255>>],
     inrange |-> FALSE, bytes |-> <<>>],
    \* 18446744073709551616
    [lit |-> <<49, 56, 52, 52, 54, 55, 52, 52, 48, 55, 51, 55, 48, 57, 53, 53, 49, 54, 49, 54>>,
     v |-> [neg |-> FALSE, mag |-> <<1, 0, 0, 0, 0, 0, 0, 0, 0>>],
     inrange |-> FALSE, bytes |-> <<>>],
    \* -18446744073709551616
    [lit |-> <<45, 49, 56, 52, 52, 54, 55, 52, 52, 48, 55, 51, 55, 48, 57, 53, 53, 49, 54, 49, 54>>,
     v |-> [neg |-> TRUE, mag |-> <<1, 0, 0, 0, 0, 0, 0, 0, 0>>],
     inrange |-> FALSE, bytes |-> <<>>],
    \* +18446744073709551616
    [lit |-> <<43, 49, 56, 52, 52, 54, 55, 52, 52, 48, 55, 51, 55, 48, 57, 53, 53, 49, 54, 49, 54>>,
     v |-> [neg |-> FALSE, mag |-> <<1, 0, 0, 0, 0, 0, 0, 0, 0>>],
     inrange |-> FALSE, bytes |-> <<>>],
    \* 18446744073709551617
    [lit |-> <<49, 56, 52, 52, 54, 55, 52, 52, 48, 55, 51, 55, 48, 57, 53, 53, 49, 54, 49, 55>>,
     v |-> [neg |-> FALSE, mag |-> <<1, 0, 0, 0, 0, 0, 0, 0, 1>>],
     inrange |-> FALSE, bytes |-> <<>>],
    \* -18446744073709551617
    [lit |-> <<45, 49, 56, 52, 52, 54, 55, 52, 52, 48, 55, 51, 55, 48, 57, 53, 53, 49, 54, 49, 55>>,
     v |-> [neg |-> TRUE, mag |-> <<1, 0, 0, 0, 0, 0, 0, 0, 1>>],
     inrange |-> FALSE, bytes |-> <<>>],
    \* +18446744073709551617
    [lit |-> <<43, 49, 56, 52, 52, 54, 55, 52, 52, 48, 55, 51, 55, 48, 57, 53, 53, 49, 54, 49, 55>>,
     v |-> [neg |-> FALSE, mag |-> <<1, 0, 0, 0, 0, 0, 0, 0, 1>>],
     inrange |-> FALSE, bytes |-> <<>>],
    \* 100000000000000000000
    [lit |-> <<49, 48, 48, 48, 48, 48, 48, 48, 48, 48, 48, 48, 48, 48, 48, 48, 48, 48, 48, 48, 48>>,
     v |-> [neg |-> FALSE, mag |-> <<5, 107, 199, 94, 45, 99, 16, 0, 0>>],
     inrange |-> FALSE, bytes |-> <<>>],
    \* -100000000000000000000
    [lit |-> <<45, 49, 48, 48, 48, 48, 48, 48, 48, 48, 48, 48, 48, 48, 48, 48, 48, 48, 48, 48, 48, 48>>,
     v |-> [neg |-> TRUE, mag |-> <<5, 107, 199, 94, 45, 99, 16, 0, 0>>],
     inrange |-> FALSE, bytes |-> <<>>],
    \* +100000000000000000000
    [lit |-> <<43, 49, 48, 48, 48, 48, 48, 48, 48, 48, 48, 48, 48, 48, 48, 48, 48, 48, 48, 48, 48, 48>>,
     v |-> [neg |-> FALSE, mag |-> <<5, 107, 199, 94, 45, 99, 16, 0, 0>>],
     inrange |-> FALSE, bytes |-> <<>>] }

Placements == {"scalar", "list", "object"}

\* n=LIT, n=[1,LIT], n=[{a:LIT}]
IntLine(place, lit) ==
    IF place = "scalar" THEN <<110, ChEquals>> \o lit
    ELSE IF place = "list"
    THEN <<110, ChEquals, ChLBracket, 49, ChComma>> \o lit \o <<ChRBracket>>
    ELSE <<110, ChEquals, ChLBracket, ChLBrace, 97, ChColon>> \o lit
             \o <<ChRBrace, ChRBracket>>

IntLines == {IntLine(place, c.lit) : place \in Placements, c \in IntCases}

InitInt ==
    /\ pc = "argv"
    /\ text \in IntLines
    /\ scan = Idle
    /\ parsed = NotRun
    /\ obj = NoObject
    /\ encoded = NotRun
    /\ raw = <<>>
    /\ decoded = NotRun
    /\ frame = NoFrame
    /\ orders = <<>>
    /\ ret = NotRun

\* obj = parse_cli_args_to_object(sys.argv[1:])
ParseLine ==
    /\ pc = "argv"
    /\ parsed' = parse_cli_args_to_object(<<text>>)
    /\ IF parsed'.err = NoError
       THEN obj' = parsed'.obj /\ pc' = "input"
       ELSE obj' = obj /\ pc' = "raised"
    /\ UNCHANGED <<text, scan, encoded, raw, decoded, frame, orders, ret>>

NextInt == ParseLine \/ Serialize

SpecInt == InitInt /\ [][NextInt]_vars

\* the value the literal became, where the line put it
IntValueAt(place, o) ==
    LET top == o.fields[1][2]
    IN  IF place = "scalar" THEN top
        ELSE IF place = "list" THEN top.list_value.elements[2]
        ELSE top.list_value.elements[1].object_value.fields[1][2]

\* the message up to the 8 bytes of the literal
IntPrefix(place) ==
    IF place = "scalar" THEN <<1, 1, 0, 15, 1, 110, 1>>
    ELSE IF place = "list"
    THEN <<1, 1, 0, 26, 1, 110, 3, 1, 0, 2, 0, 0, 0, 0, 0, 0, 0, 1>>
    ELSE <<1, 1, 0, 22, 1, 110, 3, 4, 0, 1, 1, 1, 97, 1>>

DictHas(d, key) == \E i \in 1..Len(d) : d[i][1] = key

DictGet(d, key) == d[CHOOSE i \in 1..Len(d) : d[i][1] = key][2]

\* del d[key]
DictDel(d, key) == SelectSeq(d, LAMBDA e : e[1] # key)

\* list(d.values())
DictValues(d) == [i \in 1..Len(d) |-> d[i][2]]

\* a book that stores the order whether or not its id is present
add_order_overwrite(book, order) ==
    [orders |-> DictSet(book, order.order_id, order),
     value  |-> ~DictHas(book, order.order_id)]

\* [orders, value]: the book after the call and the value returned
add_order(book, order) ==
    LET oid == order.order_id
    IN  IF DictHas(book, oid) THEN [orders |-> book, value |-> FALSE]
        ELSE [orders |-> DictSet(book, oid, order), value |-> TRUE]

remove_order(book, order_id) ==
    IF DictHas(book, order_id)
    THEN [orders |-> DictDel(book, order_id), value |-> TRUE]
    ELSE [orders |-> book, value |-> FALSE]

\* list.sort(key=lambda x: x['price']): stable, ascending
RECURSIVE SortByPrice(_)
SortByPrice(list) ==
    IF list = <<>> THEN <<>>
    ELSE LET sorted == SortByPrice(Front(list))
             x      == Last(list)
             k      == Cardinality({i \in 1..Len(sorted) :
                                       sorted[i].price <= x.price})
         IN  SubSeq(sorted, 1, k) \o <<x>> \o SubSeq(sorted, k + 1, Len(sorted))

get_orders_by_contract(book, delivery_start, delivery_end) ==
    SortByPrice(SelectSeq(DictValues(book),
        LAMBDA o : o.ds = delivery_start /\ o.de = delivery_end))

MaxIds == 3

\* "o1", "o2", ...
OrderIds == {<<111, 48 + i>> : i \in 1..MaxIds}

Prices == {1, 2}

Windows == {<<1, 2>>, <<1, 3>>}

Orders ==
    {[order_id |-> id, price |-> p, quantity |-> 5, ds |-> w[1], de |-> w[2]] :
        id \in OrderIds, p \in Prices, w \in Windows}

\* no method of the book has been called
NoCall == [op |-> "none", args |-> <<>>, value |-> FALSE]

InitBook ==
    /\ pc = "book"
    /\ orders = <<>>
    /\ ret = NoCall
    /\ obj = NoObject
    /\ encoded = NotRun
    /\ raw = <<>>
    /\ decoded = NotRun
    /\ text = <<>>
    /\ scan = Idle
    /\ parsed = NotRun
    /\ frame = NoFrame

AddOrder ==
    /\ pc = "book"
    /\ \E order \in Orders :
           LET r == add_order(orders, order)
           IN  /\ orders' = r.orders
               /\ ret' = [op |-> "add_order", args |-> <<order>>,
                          value |-> r.value]
    /\ UNCHANGED <<pc, obj, encoded, raw, decoded, text, scan, parsed, frame>>

RemoveOrder ==
    /\ pc = "book"
    /\ \E order_id \in OrderIds :
           LET r == remove_order(orders, order_id)
           IN  /\ orders' = r.orders
               /\ ret' = [op |-> "remove_order", args |-> <<order_id>>,
                          value |-> r.value]
    /\ UNCHANGED <<pc, obj, encoded, raw, decoded, text, scan, parsed, frame>>

GetOrders ==
    /\ pc = "book"
    /\ \E w \in Windows :
           ret' = [op |-> "get_orders_by_contract", args |-> w,
                   value |-> get_orders_by_contract(orders, w[1], w[2])]
    /\ UNCHANGED <<pc, obj, encoded, raw, decoded, text, scan, parsed, frame,
                   orders>>

NextBook == AddOrder \/ RemoveOrder \/ GetOrders

SpecBook == InitBook /\ [][NextBook]_vars

\* the list returned is exactly the orders of the book in the window asked
\* for, each once, by non-decreasing price
QueryExact ==
    ret.op = "get_orders_by_contract" =>
        LET ds  == ret.args[1]
            de  == ret.args[2]
            res == ret.value
        IN  /\ \A i \in 1..Len(res) :
                   /\ DictHas(orders, res[i].order_id)
                   /\ DictGet(orders, res[i].order_id) = res[i]
                   /\ res[i].ds = ds /\ res[i].de = de
            /\ \A j \in 1..Len(orders) :
                   orders[j][2].ds = ds /\ orders[j][2].de = de =>
                       Cardinality({i \in 1..Len(res) :
                                       res[i] = orders[j][2]}) = 1
            /\ \A i, k \in 1..Len(res) :
                   i # k => res[i].order_id # res[k].order_id
            /\ \A i \in 1..Len(res) - 1 : res[i].price <= res[i + 1].price

\* add_order with an id that is present returns False and changes nothing
DuplicateRefused ==
    (ret'.op = "add_order" /\ DictHas(orders, ret'.args[1].order_id))
        => ret'.value = FALSE /\ orders' = orders

\* no call replaces the order stored under an id
NeverOverwritten ==
    \A j \in 1..Len(orders) :
        DictHas(orders', orders[j][1]) =>
            DictGet(orders', orders[j][1]) = orders[j][2]

\* C14: order book query.  After any sequence of add_order and remove_order
\* calls, get_orders_by_contract(ds, de) returns exactly the orders in the
\* book whose window is (ds, de), each once, in non-decreasing price order;
\* add_order with an order_id already present returns False and leaves the
\* book unchanged, so the order stored under an id is never overwritten.
OrderBookQuery ==
    /\ [](QueryExact /\ \A j \in 1..Len(orders) :
                            orders[j][2].order_id = orders[j][1])
    /\ [][DuplicateRefused /\ NeverOverwritten]_vars

\* three orders in the book, two in the window asked for, returned cheapest
\* first although the dearer one was added earlier
QueryReordered ==
    /\ ret.op = "get_orders_by_contract"
    /\ Len(orders) = 3
    /\ Len(ret.value) = 2
    /\ ret.value[1] = orders[3][2]
    /\ ret.value[2] = orders[1][2]
    /\ ret.value[1].price < ret.value[2].price

=============================================================================
